---- MODULE Spec2Model ----
(***************************************************************************)
(* Model of the ESLint rule lib/rules/avoid-importing-barrel-files.js.     *)
(*                                                                         *)
(* State: the module-level cache (line 28), the rule context built by      *)
(* create() for the file being linted (lines 156-190), and what the        *)
(* ImportDeclaration handler (lines 207-334) has done so far: diagnostics  *)
(* reported, console lines written, collaborators invoked, and the error   *)
(* it let escape, if any.                                                  *)
(*                                                                         *)
(* Strings the code inspects character by character (module specifiers)    *)
(* are sequences of one-character strings; paths are sequences of          *)
(* segments.                                                               *)
(*                                                                         *)
(* The traversal behind count_module_graph_size lives in the package       *)
(* eslint-barrel-file-utils; it is a state machine of its own (SpecGraph), *)
(* written from the design of the graph-size counter.                      *)
(***************************************************************************)
EXTENDS Integers, Sequences, FiniteSets, TLC

VARIABLES
    context,                \* <<what create() closed over>>, or <<>> when no file is being traversed
    cache,                  \* const cache = {} (line 28)
    reports,                \* context.report calls, in order
    errLines,               \* console.error lines, in order
    calls,                  \* invocations of resolver / readFileSync / classifier / counter
    runs,                   \* handler invocations per specifier
    last,                   \* the last handler invocation and what it did
    walk                    \* one traversal of count_module_graph_size, step by step

vars == <<context, cache, reports, errLines, calls, runs, last, walk>>

----------------------------------------------------------------------------
(* Bounds *)

\* handler invocations explored in one process
MaxImports == 2

\* modules in an import graph handed to the graph-size traversal
MaxModules == 3

----------------------------------------------------------------------------
(* JavaScript values *)

Undefined == "undefined"
NoError == "no-error"

\* an absent option / property / cache slot is <<>>, a present one <<value>>
Absent == <<>>

\* a ?? b (lines 158-172)
Nullish(a, b) == IF a = Absent THEN b ELSE a[1]

----------------------------------------------------------------------------
(* Module specifiers of the explored imports *)

S_fs == <<"f", "s">>
S_node_fs == <<"n", "o", "d", "e", ":", "f", "s">>
S_node_test == <<"n", "o", "d", "e", ":", "t", "e", "s", "t">>
S_pkg == <<"p", "k", "g">>
S_scoped == <<"@", "s">>
S_small == <<"s", "m">>
S_gone == <<"g", "o", "n", "e">>
S_rel == <<".", "/", "b">>
S_node_colon == <<"n", "o", "d", "e", ":">>

Specifiers == {S_fs, S_node_fs, S_node_test, S_pkg, S_scoped, S_small, S_gone, S_rel}

ImportKinds == {"value", "type"}

\* an ImportDeclaration AST node: node.source.value and node.importKind
Nodes == [source : Specifiers, importKind : ImportKinds]

----------------------------------------------------------------------------
(* String operations the handler applies to a specifier *)

\* the characters /[@a-zA-Z]/ accepts (line 197)
BareFirstChars ==
    {"@",
     "a", "b", "c", "d", "e", "f", "g", "h", "i", "j", "k", "l", "m",
     "n", "o", "p", "q", "r", "s", "t", "u", "v", "w", "x", "y", "z",
     "A", "B", "C", "D", "E", "F", "G", "H", "I", "J", "K", "L", "M",
     "N", "O", "P", "Q", "R", "S", "T", "U", "V", "W", "X", "Y", "Z"}

\* positions at which pat occurs in s
Occurrences(s, pat) ==
    {i \in 1..(Len(s) - Len(pat) + 1) : SubSeq(s, i, i + Len(pat) - 1) = pat}

\* String.prototype.replace(pat, rep) with a string pattern: the first
\* occurrence only, wherever it is (line 219)
ReplaceFirst(s, pat, rep) ==
    IF Occurrences(s, pat) = {}
    THEN s
    ELSE LET i == CHOOSE k \in Occurrences(s, pat) :
                      \A j \in Occurrences(s, pat) : k <= j
         IN  SubSeq(s, 1, i - 1) \o rep \o SubSeq(s, i + Len(pat), Len(s))

\* String.prototype.replace(/c/g, ""): every occurrence of one character (line 197)
RemoveChar(s, c) == SelectSeq(s, LAMBDA x : x # c)

\* isBareModuleSpecifier (lines 196-197):
\*   !!specifier?.replace(/'/g, "")[0].match(/[@a-zA-Z]/g)
\* [0] of an empty string is undefined, and .match of undefined throws
isBareModuleSpecifier(specifier) ==
    LET stripped == RemoveChar(specifier, "'")
    IN  IF stripped = <<>>
        THEN [threw |-> TRUE, value |-> FALSE]
        ELSE [threw |-> FALSE, value |-> stripped[1] \in BareFirstChars]

\* require("module").builtinModules (line 11), cut to the modules explored.
\* The list names a module that loads with or without the node: prefix by its
\* bare name ("fs"), and a prefix-only module by its prefixed name
\* ("node:test"; before Node 23.5 the list left the prefix-only modules out).
builtinModules == {S_fs, S_node_test}

\* builtinModules.includes(moduleSpecifier.replace("node:", "")) (line 219)
IsBuiltinSkipped(moduleSpecifier) ==
    ReplaceFirst(moduleSpecifier, S_node_colon, <<>>) \in builtinModules

----------------------------------------------------------------------------
(* The files being linted and the modules on disk *)

F_a == <<"a", "x.js">>
F_b == <<"b", "y.js">>
Filenames == {F_a, F_b}

\* path.dirname (line 226)
Dirname(p) == SubSeq(p, 1, Len(p) - 1)

P_pkg(dir) == dir \o <<"node_modules", "pkg", "index.js">>
P_scoped == <<"node_modules", "@s", "index.js">>
P_small == <<"node_modules", "sm", "index.js">>
P_rel(dir) == dir \o <<"b.js">>

NoPath == <<>>

\* a ResolveResult { path?, error? } as resolver.sync returns it (line 225), or
\* an exception thrown by the call. cause is the resolver's own error kind, which
\* the result carries only inside the error text.
Resolved(p) == [threw |-> FALSE, path |-> p, error |-> Undefined, cause |-> "none"]
Failed(p, cause) == [threw |-> FALSE, path |-> p, error |-> "error", cause |-> cause]
Thrown == [threw |-> TRUE, path |-> NoPath, error |-> Undefined, cause |-> "Other"]

\* every way a resolution can fail
Failures(dir) ==
    {Failed(NoPath, "NotFound"), Failed(NoPath, "Other"),
     Failed(dir \o <<"broken.js">>, "Other"), Thrown}

\* resolver.sync(path.dirname(currentFileName), moduleSpecifier) (lines 225-228):
\* the outcomes the resolver can produce for the explored specifiers
ResolverSync(dir, specifier) ==
    CASE specifier = S_pkg -> {Resolved(P_pkg(dir))}
      [] specifier = S_scoped -> {Resolved(P_scoped)}
      [] specifier = S_small -> {Resolved(P_small)}
      [] specifier = S_rel -> {Resolved(P_rel(dir))}
      [] OTHER -> Failures(dir)

\* top-level export bindings in the text of the module at a path
ExportsAt(p) ==
    CASE p = P_pkg(<<"a">>) -> 5
      [] p = P_pkg(<<"b">>) -> 2
      [] p = P_scoped -> 5
      [] p = P_small -> 2
      [] p = P_rel(<<"a">>) -> 3
      [] OTHER -> 0

\* distinct modules reachable from the module at a path
GraphAt(p) ==
    CASE p = P_pkg(<<"a">>) -> 5
      [] p = P_scoped -> 25
      [] p = P_rel(<<"a">>) -> 21
      [] OTHER -> 0

\* readFileSync(resolvedPath.path, "utf8") (line 269): the text, here the
\* number of export bindings in it, or an exception
readFileSync(p, readable) ==
    IF readable THEN [threw |-> FALSE, exports |-> ExportsAt(p)]
                ELSE [threw |-> TRUE, exports |-> 0]

\* is_barrel_file(fileContent, amountOfExportsToConsiderModuleAsBarrel)
is_barrel_file(fileContent, threshold) == fileContent.exports >= threshold

\* count_module_graph_size(resolvedPath.path, resolutionOptions)
count_module_graph_size(p) == GraphAt(p)

\* an ignore pattern **/<segment>/** and multimatch([path], ignore) (line 261)
G_node_modules == "node_modules"
multimatch(paths, ignore) ==
    {p \in paths : \E g \in ignore : \E i \in 1..(Len(p) - 1) : p[i] = g}

----------------------------------------------------------------------------
(* Rule options and create() *)

DefaultMaxModuleGraphSizeAllowed == 20
DefaultAmountOfExports == 3

\* context.options?.[0] || {} (line 157): every option may be left out
NoOptions ==
    [allowList |-> Absent, ignore |-> Absent, maxModuleGraphSizeAllowed |-> Absent,
     amountOfExportsToConsiderModuleAsBarrel |-> Absent, debug |-> Absent]

\* the configurations explored
OptionChoices ==
    {NoOptions,
     [NoOptions EXCEPT !.debug = <<TRUE>>],
     [NoOptions EXCEPT !.allowList = <<{S_scoped, S_node_test}>>],
     [NoOptions EXCEPT !.ignore = <<{G_node_modules}>>],
     [NoOptions EXCEPT !.maxModuleGraphSizeAllowed = <<4>>,
                       !.amountOfExportsToConsiderModuleAsBarrel = <<3>>],
     [NoOptions EXCEPT !.maxModuleGraphSizeAllowed = <<-2>>, !.debug = <<TRUE>>]}

\* what the handler closes over (lines 157-172) and context.getFilename() (line 209)
MakeContext(filename, options) ==
    [filename |-> filename,
     allowList |-> options.allowList,
     maxModuleGraphSizeAllowed |->
         Nullish(options.maxModuleGraphSizeAllowed, DefaultMaxModuleGraphSizeAllowed),
     debug |-> Nullish(options.debug, FALSE),
     amountOfExportsToConsiderModuleAsBarrel |->
         Nullish(options.amountOfExportsToConsiderModuleAsBarrel, DefaultAmountOfExports),
     ignore |-> Nullish(options.ignore, {})]

\* the allow-list test with the specifier never found on the list
IsAllowListedNever(ctx, moduleSpecifier) == FALSE

\* options?.allowList?.includes(moduleSpecifier) (line 211)
IsAllowListed(ctx, moduleSpecifier) ==
    /\ ctx.allowList # Absent
    /\ moduleSpecifier \in ctx.allowList[1]

\* the type-only test with no import ever taken for type-only
IsTypeImportNever(node) == FALSE

\* node?.importKind === "type" (line 215)
IsTypeImport(node) == node.importKind = "type"

\* message(amount, specifier) (lines 203-204): the three values the text carries
message(ctx, amount, specifier) ==
    [specifier |-> specifier, amount |-> amount, max |-> ctx.maxModuleGraphSizeAllowed]

----------------------------------------------------------------------------
(* What one run of the ImportDeclaration handler does *)

NoResult == [threw |-> FALSE, path |-> NoPath, error |-> Undefined, cause |-> "none"]

\* the record of one handler run, before it has done anything; cache is the
\* cache as the run leaves it
Effect(node, ctx, c) ==
    [node |-> node, ctx |-> ctx, outcome |-> "none", thrown |-> NoError,
     reported |-> <<>>, logged |-> <<>>, printed |-> 0,
     resolverInvoked |-> FALSE, result |-> NoResult, errorVariant |-> "none",
     readable |-> TRUE, fileRead |-> FALSE, classified |-> FALSE, counted |-> FALSE,
     cacheRead |-> FALSE, cacheWritten |-> FALSE, cacheBefore |-> c, cache |-> c]

\* context.report({ node: node.source, message }) (lines 294, 307, 328)
Report(eff, amount) ==
    [eff EXCEPT !.reported =
        Append(@, [node |-> eff.node.source,
                   message |-> message(eff.ctx, amount, eff.node.source)])]

\* lines 320-332: a local module is analysed on every occurrence
AnalyseLocal(eff, fileContent) ==
    LET isBarrelFile == is_barrel_file(fileContent,
                            eff.ctx.amountOfExportsToConsiderModuleAsBarrel)
        moduleGraphSize == IF isBarrelFile
                           THEN count_module_graph_size(eff.result.path)
                           ELSE -1
        e1 == [eff EXCEPT !.classified = TRUE, !.counted = isBarrelFile,
                          !.outcome = "analysed"]
    IN  IF moduleGraphSize > eff.ctx.maxModuleGraphSizeAllowed
        THEN Report(e1, moduleGraphSize)
        ELSE e1

\* lines 279-298: a bare specifier with no cache entry is analysed and cached
AnalyseAndCache(eff, fileContent) ==
    LET isBarrelFile == is_barrel_file(fileContent,
                            eff.ctx.amountOfExportsToConsiderModuleAsBarrel)
        moduleGraphSize == IF isBarrelFile
                           THEN count_module_graph_size(eff.result.path)
                           ELSE -1
        e1 == [eff EXCEPT !.classified = TRUE, !.counted = isBarrelFile,
                          !.cacheRead = TRUE, !.cacheWritten = TRUE,
                          !.cache[eff.node.source] =
                              <<[isBarrelFile |-> isBarrelFile,
                                 moduleGraphSize |-> moduleGraphSize]>>,
                          !.outcome = "analysed"]
    IN  IF moduleGraphSize > eff.ctx.maxModuleGraphSizeAllowed
        THEN Report(e1, moduleGraphSize)
        ELSE e1

\* a property name every plain object inherits from Object.prototype
S_constructor == <<"c", "o", "n", "s", "t", "r", "u", "c", "t", "o", "r">>
ObjectPrototypeKeys == {S_constructor}

\* cache[key] finds no own property and falls back on Object.prototype:
\* the cache is the object literal {} of line 28
IsInherited(c, key) ==
    /\ key \in ObjectPrototypeKeys
    /\ (key \notin DOMAIN c \/ c[key] = Absent)

\* cache[moduleSpecifier] is truthy (lines 279, 299)
CacheHas(c, key) ==
    \/ key \in DOMAIN c /\ c[key] # Absent
    \/ IsInherited(c, key)

\* lines 299-315: a bare specifier with a cache entry is decided from the entry.
\* The moduleGraphSize of an inherited member is undefined, and
\* undefined > max is false.
UseCached(eff) ==
    LET e1 == [eff EXCEPT !.cacheRead = TRUE, !.outcome = "cached"]
    IN  IF IsInherited(eff.cache, eff.node.source)
        THEN e1
        ELSE LET entry == eff.cache[eff.node.source][1]
             IN  IF entry.moduleGraphSize > eff.ctx.maxModuleGraphSizeAllowed
                 THEN Report(e1, entry.moduleGraphSize)
                 ELSE e1

\* lines 275-333: the branch on isBareModuleSpecifier and on !cache[moduleSpecifier]
Classify(eff, fileContent) ==
    LET bare == isBareModuleSpecifier(eff.node.source)
    IN  IF bare.threw
        THEN [eff EXCEPT !.thrown = "TypeError", !.outcome = "threw"]
        ELSE IF bare.value
             THEN IF ~CacheHas(eff.cache, eff.node.source)
                  THEN AnalyseAndCache(eff, fileContent)
                  ELSE UseCached(eff)
             ELSE AnalyseLocal(eff, fileContent)

\* line 269: the read is outside any try, so its exception leaves the handler
ReadAndClassify(eff) ==
    LET fileContent == readFileSync(eff.result.path, eff.readable)
        e1 == [eff EXCEPT !.fileRead = TRUE]
    IN  IF fileContent.threw
        THEN [e1 EXCEPT !.thrown = "ReadError", !.outcome = "threw"]
        ELSE Classify(e1, fileContent)

\* lines 261-267: multimatch, console.log(ignoredPaths), the ignore return
IgnoreCheck(eff) ==
    LET ignoredPaths == multimatch({eff.result.path}, eff.ctx.ignore)
        e1 == [eff EXCEPT !.printed = @ + 1]
    IN  IF eff.ctx.ignore # {} /\ eff.result.path \in ignoredPaths
        THEN [e1 EXCEPT !.outcome = "skip-ignore"]
        ELSE ReadAndClassify(e1)

\* the properties a string primitive has, own or inherited, among the names
\* the handler reads
StringProperties == {"length", "replace", "match", "includes"}

\* 'resolvedPath.path: '.resolvedPath (line 259): a property read on a string
StringMember(name) == IF name \in StringProperties THEN "defined" ELSE Undefined

\* <base>.path (line 259): reading a property of undefined throws a TypeError
ReadMember(base) == [threw |-> base = Undefined]

\* line 259: console.log('resolvedPath.path: '.resolvedPath.path). The argument
\* is a member expression on the string literal, not a concatenation.
LogResolvedPath(eff) ==
    IF ReadMember(StringMember("resolvedPath")).threw
    THEN [eff EXCEPT !.thrown = "TypeError", !.outcome = "threw"]
    ELSE IgnoreCheck([eff EXCEPT !.printed = @ + 1])

\* lines 230-237: what the try block throws for a resolver outcome.
\* errorVariant "null" is new ResolveError(null, ...).
ResolveException(rr) ==
    IF rr.threw
    THEN [caught |-> TRUE, isResolveError |-> FALSE, errorVariant |-> "none"]
    ELSE IF rr.error # Undefined
         THEN IF rr.path = NoPath
              THEN [caught |-> TRUE, isResolveError |-> TRUE, errorVariant |-> "NotFound"]
              ELSE [caught |-> TRUE, isResolveError |-> TRUE, errorVariant |-> "null"]
         ELSE [caught |-> FALSE, isResolveError |-> FALSE, errorVariant |-> "none"]

\* the catch block without its early return for debug = false
CatchLinesIgnoringDebug(e, debug) ==
    (IF e.isResolveError
     THEN IF e.errorVariant = "NotFound"
          THEN <<"Failed to resolve">>
          ELSE <<"message">>
     ELSE <<>>) \o <<"error">>

\* lines 238-257: the console.error lines the catch block writes
CatchLines(e, debug) ==
    IF ~debug
    THEN <<>>
    ELSE (IF e.isResolveError
          THEN IF e.errorVariant = "NotFound"
               THEN <<"Failed to resolve">>
               ELSE <<"message">>
          ELSE <<>>) \o <<"error">>

\* lines 223-257: resolve, and skip when the resolution failed
Resolve(eff, rr, readable) ==
    LET e1 == [eff EXCEPT !.resolverInvoked = TRUE, !.result = rr]
        ex == ResolveException(rr)
    IN  IF ex.caught
        THEN [e1 EXCEPT !.logged = CatchLines(ex, eff.ctx.debug),
                        !.errorVariant = ex.errorVariant,
                        !.outcome = "skip-unresolved"]
        ELSE LogResolvedPath([e1 EXCEPT !.readable = readable])

\* ImportDeclaration(node) (lines 207-334)
Handler(node, ctx, c, rr, readable) ==
    LET eff == Effect(node, ctx, c)
    IN  IF IsAllowListed(ctx, node.source)
        THEN [eff EXCEPT !.outcome = "skip-allowList"]
        ELSE IF IsTypeImport(node)
             THEN [eff EXCEPT !.outcome = "skip-type"]
             ELSE IF IsBuiltinSkipped(node.source)
                  THEN [eff EXCEPT !.outcome = "skip-builtin"]
                  ELSE Resolve(eff, rr, readable)

----------------------------------------------------------------------------
(* The state machine *)

Bump(f, k, yes) == IF yes THEN [f EXCEPT ![k] = @ + 1] ELSE f

Zero == [s \in Specifiers |-> 0]

----------------------------------------------------------------------------
(* The graph-size traversal behind count_module_graph_size *)

Modules == 1..MaxModules

\* the entry module of the traversal
Entry == CHOOSE m \in Modules : \A n \in Modules : m <= n

\* import graphs: the modules each module's import statements resolve to
ImportGraphs == [Modules -> SUBSET Modules]

\* no traversal under way
IdleWalk ==
    [graph |-> [m \in Modules |-> {}], visited |-> {}, frontier |-> {},
     expanded |-> [m \in Modules |-> 0], pc |-> "idle", result |-> -1]

\* the visited set is seeded with the entry, whose imports are to be traversed
StartWalk(g) ==
    [graph |-> g, visited |-> {Entry}, frontier |-> {Entry},
     expanded |-> [m \in Modules |-> 0], pc |-> "walking", result |-> -1]

\* the imports of m taken as if none had been visited before
UnseenRecounted(w, m) == w.graph[m]

\* the imports of m that resolve to a path not yet in the visited set; the
\* others are ignored
Unseen(w, m) == w.graph[m] \ w.visited

\* the count returned: the visited modules without the entry
GraphSize(w) == Cardinality(w.visited) - 1

HandlerInit ==
    /\ context = Absent
    /\ cache = [s \in Specifiers |-> Absent]
    /\ reports = <<>>
    /\ errLines = <<>>
    /\ calls = [handled |-> 0, resolver |-> Zero, read |-> Zero,
                classify |-> Zero, count |-> Zero]
    /\ runs = Zero
    /\ last = Effect([source |-> S_pkg, importKind |-> "value"],
                     MakeContext(F_a, NoOptions), [s \in Specifiers |-> Absent])

Init ==
    /\ HandlerInit
    /\ walk = IdleWalk

\* create(context) (lines 156-190): ESLint builds the rule for a file to lint
create(filename, options) ==
    /\ calls.handled < MaxImports
    /\ context' = <<MakeContext(filename, options)>>
    /\ UNCHANGED <<cache, reports, errLines, calls, runs, last, walk>>

\* what the world may answer to one handler run: the resolver's outcome, and
\* whether the resolved file can be read
Answers(node, ctx) ==
    IF \/ IsAllowListed(ctx, node.source)
       \/ IsTypeImport(node)
       \/ IsBuiltinSkipped(node.source)
    THEN {<<NoResult, TRUE>>}
    ELSE {<<rr, readable>> :
              rr \in ResolverSync(Dirname(ctx.filename), node.source),
              readable \in BOOLEAN}

\* ESLint visits one import declaration of the file. An error that leaves the
\* handler ends the traversal of the file.
ImportDeclaration(node) ==
    /\ context # Absent
    /\ calls.handled < MaxImports
    /\ \E a \in Answers(node, context[1]) :
       \E eff \in {Handler(node, context[1], cache, a[1], a[2])} :
         /\ last' = eff
         /\ cache' = eff.cache
         /\ reports' = reports \o eff.reported
         /\ errLines' = errLines \o eff.logged
         /\ calls' = [handled |-> calls.handled + 1,
                      resolver |-> Bump(calls.resolver, node.source, eff.resolverInvoked),
                      read |-> Bump(calls.read, node.source, eff.fileRead),
                      classify |-> Bump(calls.classify, node.source, eff.classified),
                      count |-> Bump(calls.count, node.source, eff.counted)]
         /\ runs' = Bump(runs, node.source, TRUE)
         /\ context' = IF eff.thrown # NoError THEN Absent ELSE context
    /\ UNCHANGED walk

Next ==
    \/ \E f \in Filenames, o \in OptionChoices : create(f, o)
    \/ \E node \in Nodes : ImportDeclaration(node)

Spec == Init /\ [][Next]_vars

----------------------------------------------------------------------------
(* The traversal as a state machine of its own *)

\* the imports of a module on the frontier are traversed: each newly resolved
\* path is added to the visited set and to the frontier
Expand(m) ==
    /\ walk.pc = "walking"
    /\ m \in walk.frontier
    /\ walk' = [walk EXCEPT !.visited = @ \cup Unseen(walk, m),
                            !.frontier = (@ \ {m}) \cup Unseen(walk, m),
                            !.expanded[m] = @ + 1]
    /\ UNCHANGED <<context, cache, reports, errLines, calls, runs, last>>

\* the frontier is empty: the traversal returns its count
Finish ==
    /\ walk.pc = "walking"
    /\ walk.frontier = {}
    /\ walk' = [walk EXCEPT !.pc = "done", !.result = GraphSize(walk)]
    /\ UNCHANGED <<context, cache, reports, errLines, calls, runs, last>>

InitGraph ==
    /\ HandlerInit
    /\ walk \in {StartWalk(g) : g \in ImportGraphs}

NextGraph ==
    \/ \E m \in Modules : Expand(m)
    \/ Finish

SpecGraph == InitGraph /\ [][NextGraph]_vars

----------------------------------------------------------------------------
(* Properties: what the last handler run was about *)

\* a handler run has taken place
Acted == last.outcome # "none"

\* the last run got a path from the resolver, with no error
ResolvedOk ==
    /\ last.resolverInvoked
    /\ ~last.result.threw
    /\ last.result.error = Undefined

\* the last run's resolution failed: an error result, or an exception
ResolutionFailed ==
    /\ last.resolverInvoked
    /\ (last.result.threw \/ last.result.error # Undefined)

\* the resolved path of the last run matches a configured ignore pattern
LastIgnored == last.result.path \in multimatch({last.result.path}, last.ctx.ignore)

\* the module the last run resolved, as a fresh classification and count see it
LastIsBarrel ==
    ExportsAt(last.result.path) >= last.ctx.amountOfExportsToConsiderModuleAsBarrel
LastSize == GraphAt(last.result.path)

\* the last run's specifier is bare
LastBare == isBareModuleSpecifier(last.node.source).value

\* the one diagnostic the rule owes for the last run's import
LastDiagnostic ==
    [node |-> last.node.source,
     message |-> [specifier |-> last.node.source, amount |-> LastSize,
                  max |-> last.ctx.maxModuleGraphSizeAllowed]]

\* the handler reached the analysis of the module the last run resolved
LastAnalysable == ResolvedOk /\ last.readable /\ ~LastIgnored

----------------------------------------------------------------------------
(* C1 *)

\* C1: an import that passes every skip test and resolves to a readable, not
\* ignored module gets exactly one diagnostic, on its source node and with its
\* specifier, size and maximum, when the module is a barrel file with a graph
\* size above maxModuleGraphSizeAllowed, and none when the size is at most the
\* maximum.
C1_OversizedBarrelReportedOnce ==
    (LastAnalysable /\ LastIsBarrel) =>
        /\ LastSize > last.ctx.maxModuleGraphSizeAllowed =>
               last.reported = <<LastDiagnostic>>
        /\ LastSize <= last.ctx.maxModuleGraphSizeAllowed =>
               last.reported = <<>>

----------------------------------------------------------------------------
(* C2 *)

\* the bare specifiers that resolve from every linted file
ResolvableBare ==
    {s \in Specifiers :
        /\ isBareModuleSpecifier(s).value
        /\ \A f \in Filenames : \A rr \in ResolverSync(Dirname(f), s) :
               ~rr.threw /\ rr.error = Undefined}

\* C2: once the handler has run twice for the same bare specifier, the
\* resolver, the file read, the classifier and the counter have each been
\* invoked at most once for it.
C2_SecondRunUsesOnlyTheCache ==
    \A s \in ResolvableBare :
        runs[s] >= 2 =>
            /\ calls.resolver[s] <= 1
            /\ calls.read[s] <= 1
            /\ calls.classify[s] <= 1
            /\ calls.count[s] <= 1

----------------------------------------------------------------------------
(* C3 *)

\* C3: an import that resolves to a module with fewer exports than the
\* threshold is analysed without its graph size being computed: the handler
\* completes, no diagnostic is reported, and on the bare path the cache holds
\* the sentinel -1 for the specifier.
C3_NonBarrelGetsSentinel ==
    (LastAnalysable /\ ~LastIsBarrel) =>
        /\ ~last.counted
        /\ last.reported = <<>>
        /\ last.thrown = NoError
        /\ LastBare =>
               /\ cache[last.node.source] # Absent
               /\ cache[last.node.source][1].moduleGraphSize = -1

----------------------------------------------------------------------------
(* C4 *)

\* C4: when the resolved module's text cannot be read, the handler lets no
\* error escape, reports nothing, writes nothing to the cache, and the
\* traversal of the file goes on.
C4_ReadFailureIsSkipped ==
    (ResolvedOk /\ ~LastIgnored /\ ~last.readable) =>
        /\ last.thrown = NoError
        /\ last.reported = <<>>
        /\ ~last.cacheWritten
        /\ context # Absent

----------------------------------------------------------------------------
(* C5 *)

\* C5: a failed resolution, returned or thrown, never leaves the handler as an
\* error: the import is skipped with no diagnostic, no file read and no cache
\* access, the traversal goes on, and a console.error line is written exactly
\* when debug is enabled.
C5_ResolutionFailureIsSkipped ==
    ResolutionFailed =>
        /\ last.thrown = NoError
        /\ last.outcome = "skip-unresolved"
        /\ last.reported = <<>>
        /\ ~last.fileRead
        /\ ~last.cacheRead
        /\ ~last.cacheWritten
        /\ cache = last.cacheBefore
        /\ context # Absent
        /\ last.ctx.debug => last.logged # <<>>
        /\ ~last.ctx.debug => last.logged = <<>>

\* a thrown resolution failure handled with debug enabled, and logged
C5_Witness ==
    /\ ResolutionFailed
    /\ last.result.threw
    /\ last.ctx.debug
    /\ Len(last.logged) >= 1
    /\ errLines # <<>>

----------------------------------------------------------------------------
(* C6 *)

\* C6: a failure the resolver returns is classified NotFound exactly when the
\* resolver's own kind is NotFound, and with debug enabled the first line
\* logged is the line of that kind.
C6_FailureKindPreserved ==
    (ResolutionFailed /\ ~last.result.threw) =>
        /\ (last.errorVariant = "NotFound") <=> (last.result.cause = "NotFound")
        /\ last.ctx.debug =>
               last.logged[1] = IF last.result.cause = "NotFound"
                                THEN "Failed to resolve"
                                ELSE "message"

----------------------------------------------------------------------------
(* C7 *)

\* the last run's specifier is on the configured allow-list
LastOnAllowList ==
    /\ Acted
    /\ last.ctx.allowList # Absent
    /\ last.node.source \in last.ctx.allowList[1]

\* C7: an allow-listed import is skipped at once: no diagnostic, no cache read
\* or write, no resolution, no error.
C7_AllowListedIsSkipped ==
    LastOnAllowList =>
        /\ last.outcome = "skip-allowList"
        /\ last.reported = <<>>
        /\ ~last.cacheRead
        /\ ~last.cacheWritten
        /\ cache = last.cacheBefore
        /\ ~last.resolverInvoked
        /\ last.thrown = NoError

\* an allow-listed value import of a specifier that resolves to an oversized
\* barrel file has been handled
C7_Witness ==
    /\ LastOnAllowList
    /\ last.node = [source |-> S_scoped, importKind |-> "value"]
    /\ ExportsAt(P_scoped) >= last.ctx.amountOfExportsToConsiderModuleAsBarrel
    /\ GraphAt(P_scoped) > last.ctx.maxModuleGraphSizeAllowed
    /\ runs[S_scoped] >= 1

----------------------------------------------------------------------------
(* C9 *)

\* the builtin platform modules among the explored specifiers
PlatformBuiltins == {S_fs, S_node_fs, S_node_test}

\* C9: an import of a builtin platform module, with or without the node:
\* prefix, never reaches the resolver and never produces a diagnostic.
C9_BuiltinNeverResolved ==
    (Acted /\ last.node.source \in PlatformBuiltins) =>
        /\ ~last.resolverInvoked
        /\ last.reported = <<>>

----------------------------------------------------------------------------
(* What line 259 does to everything after it *)

\* a handler run that resolves its import ends in a TypeError at line 259
ResolvedRunThrows == ResolvedOk => last.thrown = "TypeError"

\* so the ignore test, the read, the classification, the cache and
\* context.report are never reached
NothingPastTheLogLine ==
    /\ \A s \in Specifiers : cache[s] = Absent
    /\ reports = <<>>
    /\ last.printed = 0
    /\ ~last.fileRead /\ ~last.classified /\ ~last.counted
    /\ ~last.cacheRead /\ ~last.cacheWritten

----------------------------------------------------------------------------
(* C14 *)

\* the last run handled a type-only import
LastTypeOnly == Acted /\ last.node.importKind = "type"

\* C14: a type-only import is skipped before any work: the handler returns at
\* one of its first two tests without resolving, reading a file, reading or
\* writing the cache, reporting or throwing.
C14_TypeOnlyIsSkipped ==
    LastTypeOnly =>
        /\ last.outcome \in {"skip-allowList", "skip-type"}
        /\ ~last.resolverInvoked
        /\ ~last.fileRead
        /\ ~last.cacheRead
        /\ ~last.cacheWritten
        /\ cache = last.cacheBefore
        /\ last.reported = <<>>
        /\ last.thrown = NoError

\* a type-only import of a specifier that is not allow-listed and that would
\* resolve to an oversized barrel file has been handled and skipped as such
C14_Witness ==
    /\ LastTypeOnly
    /\ last.outcome = "skip-type"
    /\ last.node.source = S_scoped
    /\ GraphAt(P_scoped) > last.ctx.maxModuleGraphSizeAllowed
    /\ calls.resolver[S_scoped] = 0

----------------------------------------------------------------------------
(* C11 *)

\* the last run resolved its import to a file of the project, outside
\* node_modules
LastLocal ==
    /\ ResolvedOk
    /\ \A i \in 1..Len(last.result.path) : last.result.path[i] # "node_modules"

\* C11: an import that resolves to a local project file is analysed afresh on
\* every occurrence (its file is read and classified by this very run, and the
\* run completes) and causes no cache write.
C11_LocalAnalysedAfreshNeverCached ==
    (LastAnalysable /\ LastLocal) =>
        /\ last.fileRead
        /\ last.classified
        /\ last.thrown = NoError
        /\ ~last.cacheWritten
        /\ cache = last.cacheBefore

----------------------------------------------------------------------------
(* C12 *)

\* the keys a lookup may be made with: the explored specifiers and a package
\* named like an inherited property
LookupKeys == Specifiers \cup ObjectPrototypeKeys

----------------------------------------------------------------------------
(* C13 *)

\* the modules reached from the modules of S by following at most k more
\* import edges
RECURSIVE Within(_, _, _)
Within(g, S, k) ==
    IF k = 0 THEN S ELSE Within(g, S \cup UNION {g[m] : m \in S}, k - 1)

\* the modules reachable from e by following one import edge or more
ReachableFrom(g, e) == Within(g, g[e], MaxModules)

\* C13: on every import graph, cyclic or not, the traversal from the entry
\* never traverses a module twice, can always take a step until it returns
\* (so it returns after at most one step per module), and returns the number
\* of distinct modules reachable from the entry, the entry itself excluded.
C13_TraversalCountsReachableOnce ==
    /\ \A m \in Modules : walk.expanded[m] <= 1
    /\ walk.visited \subseteq ReachableFrom(walk.graph, Entry) \cup {Entry}
    /\ walk.pc = "walking" => ENABLED NextGraph
    /\ walk.pc = "done" =>
           /\ walk.frontier = {}
           /\ walk.result =
                  Cardinality(ReachableFrom(walk.graph, Entry) \ {Entry})

\* a traversal has returned 2 on a graph in which the entry imports a module
\* that imports the entry back and one module more
C13_Witness ==
    /\ walk.pc = "done"
    /\ \E b \in Modules \ {Entry}, c \in Modules \ {Entry} :
           /\ b # c
           /\ b \in walk.graph[Entry]
           /\ walk.graph[b] = {Entry, c}
           /\ Entry \in walk.graph[c]
    /\ walk.result = 2

====
